---- MODULE Spec2Model ----
(***************************************************************************)
(* Model of the DWS report collector (collector/src/tests/                 *)
(* dws-test-results-collector.spec.ts with utils/dws-api.ts and            *)
(* utils/file-utils.ts): one work queue, collected by a sequence of runs.  *)
(* Files are modelled by their content, strings by sequences of            *)
(* characters, every awaited call by one step.  A run can be stopped       *)
(* between any two steps.                                                  *)
(***************************************************************************)
EXTENDS Integers, Sequences, FiniteSets, TLC

\* ------------------------------------------------------------------ bounds
MaxRuns == 2
MaxListing == 2
MaxNow == 1
MaxFaults == 1
MaxTests == 40
MaxRecorded == 3

\* Values of NUMBER_OF_QUEUE_RESULTS a run may be started with.
NValues == {1, 2}

\* --------------------------------------------------------------- constants
NL == 10              \* "\n" in a file whose other characters are digits 0..9
batchSize == 5
NameLimit == 50

Unset == "unset"      \* a property that is absent (undefined)
Null == "null"        \* JSON null

\* ------------------------------------------------- the remote platform (DWS)
\* The executions of the queue the platform may come to list, numbered in the
\* order they are run.
ExecIds == {1, 2, 3, 4}

\* automatedQueue.key, as the string of its digits: "2", "12", "13", "14", ...,
\* "19", "20".
ExecKey(e) == IF e = 1 THEN <<2>> ELSE IF e < 10 THEN <<1, e>> ELSE <<2, e - 10>>

\* An execution with more test names than one batch of searches holds.
BigExec == 5

\* An execution with records of every outcome, with and without key, and
\* histories with and without a failed step.
DetailExec == 8

\* An execution that has results and no start timestamp, and one that is run
\* after it.
NoTsExec == 9
LaterExec == 10

\* automatedQueue.executionStartTimeStamp: calendar date, second of the day,
\* millisecond; has is FALSE when the listing entry carries none.
ExecTs(e) ==
    CASE e = 1 -> [has |-> TRUE, date |-> 1, sec |-> 1, ms |-> 0]
      [] e = 2 -> [has |-> TRUE, date |-> 1, sec |-> 2, ms |-> 0]
      [] e = 3 -> [has |-> TRUE, date |-> 1, sec |-> 2, ms |-> 500]
      [] e = 4 -> [has |-> FALSE, date |-> 0, sec |-> 0, ms |-> 0]
      [] e = 9 -> [has |-> FALSE, date |-> 0, sec |-> 0, ms |-> 0]
      [] OTHER -> [has |-> TRUE, date |-> 2, sec |-> e, ms |-> 0]

\* Test names, as character sequences.
NameA == <<"a", " ", "b">>
NameB == <<"a", "_", "b">>
NameC == <<"c">>
NameD == <<"d">>
NameE == <<"e">>
NameF == <<"f">>
NameG == <<"g">>

\* A step of GetHistoryDetail.
Step(succ, status, title, desc, ref) ==
    [successful |-> succ, executionStatus |-> status, title |-> title,
     description |-> desc, key |-> ref]

\* The records GetAutomatedTestListForTestQueue returns, by record key, and
\* the steps GetHistoryDetail returns for each.
RecIds == {1, 2, 3, 4, 5}

RecName(r) ==
    CASE r = 1 -> NameA
      [] r = 2 -> NameB
      [] r = 3 -> NameA
      [] r = 6 -> NameA
      [] r = 7 -> NameB
      [] r = 9 -> NameD
      [] r = 10 -> NameE
      [] r = 11 -> NameF
      [] r = 12 -> NameG
      [] r = 13 -> NameA
      [] r = 14 -> NameB
      [] r = 16 -> NameA
      [] r = 17 -> NameA
      [] r = 18 -> NameA
      [] r = 21 -> NameA
      [] r = 22 -> NameB
      [] r = 25 -> NameD
      [] r = 26 -> NameE
      [] r = 27 -> NameF
      [] OTHER -> NameC

RecSuccessful(r) ==
    CASE r = 1 -> "FAIL"
      [] r = 2 -> "Fail"
      [] r = 3 -> "SUCCESS"
      [] r = 4 -> "FAIL"
      [] r = 18 -> "FAIL"
      [] r = 21 -> "FAIL"
      [] r = 22 -> "Fail"
      [] r = 24 -> "SUCCESS"
      [] r = 25 -> "FAIL"
      [] r = 26 -> "fail"
      [] r = 27 -> "FAIL"
      [] r \in {13, 14, 15, 16, 17} -> "SUCCESS"
      [] OTHER -> "FAILED"

RecSteps(r) ==
    CASE r = 1 -> << Step("SUCCESS", "Completed", "t0", "d0", "u0"),
                     Step("FAIL", "Disabled", "tx", "dx", "ux"),
                     Step("fail", "Completed", "t1", "d1", "u1") >>
      [] r = 2 -> << Step("FAIL", "Completed", "t2", "d2", "") >>
      [] r = 4 -> << Step("SUCCESS", "Completed", "t4", "d4", "u4") >>
      [] r = 21 -> << Step("SUCCESS", "Completed", "t0", "d0", "u0"),
                      Step("FAIL", "Disabled", "tx", "dx", "ux"),
                      Step("fail", "Completed", "t1", "d1", "u1"),
                      Step("FAIL", "Completed", "t9", "d9", "u9") >>
      [] r = 22 -> << Step("FAIL", "Completed", "t2", "d2", "u2") >>
      [] r = 23 -> << Step("FAIL", "Completed", "t3", "d3", "u3") >>
      [] r = 25 -> << Step("FAIL", "Completed", "t5", "d5", "u5") >>
      [] r = 26 -> << Step("SUCCESS", "Completed", "t6", "d6", "u6"),
                      Step("FAIL", "Disabled", "ty", "dy", "uy") >>
      [] r = 27 -> << Step("FAIL", "Completed", "t7", "d7", "") >>
      [] OTHER -> << >>

ExecRecs(e) ==
    CASE e = 1 -> <<1, 2>>
      [] e = 2 -> <<3, 4>>
      [] e = 3 -> <<5>>
      [] e = 5 -> <<6, 7, 8, 9, 10, 11, 12, 17, 18>>
      [] e = 6 -> <<13, 14>>
      [] e = 7 -> <<15, 16>>
      [] e = 8 -> <<21, 22, 23, 24, 25, 26, 27>>
      [] e = 9 -> <<3, 4>>
      [] e = 10 -> <<5>>
      [] OTHER -> << >>

\* The issue the tracker's search returns first for a test name, if any.
JiraIssue(name) == IF name = NameA THEN "PRJ-1" ELSE Null

\* ------------------------------------------------------- string functions
Min(a, b) == IF a < b THEN a ELSE b

\* String.prototype.toLocaleLowerCase on the status strings in use.
Lower(s) ==
    CASE s \in {"FAIL", "Fail", "fail"} -> "fail"
      [] s \in {"FAILED", "Failed", "failed"} -> "failed"
      [] s \in {"SUCCESS", "Success", "success"} -> "success"
      [] s \in {"TRUE", "True", "true"} -> "true"
      [] OTHER -> s

AlphaNum ==
    {"a", "b", "c", "d", "e", "f", "g", "h", "i", "j", "k", "l", "m", "n", "o",
     "p", "q", "r", "s", "t", "u", "v", "w", "x", "y", "z", "A", "B", "C", "D",
     "E", "F", "G", "H", "I", "J", "K", "L", "M", "N", "O", "P", "Q", "R", "S",
     "T", "U", "V", "W", "X", "Y", "Z", "0", "1", "2", "3", "4", "5", "6", "7",
     "8", "9"}

\* testName.replaceAll(/[^a-z0-9]/gi, "_").substring(0, 50)
SanitizeName(name) ==
    [k \in 1..Min(Len(name), NameLimit) |->
        IF name[k] \in AlphaNum THEN name[k] ELSE "_"]

\* line.includes(s)
Includes(line, s) ==
    \E k \in 0..(Len(line) - Len(s)) : SubSeq(line, k + 1, k + Len(s)) = s

\* data.split("\n")
RECURSIVE Split(_)
Split(data) ==
    IF \A k \in 1..Len(data) : data[k] # NL
    THEN <<data>>
    ELSE LET k == CHOOSE j \in 1..Len(data) :
                      data[j] = NL /\ \A h \in 1..(j - 1) : data[h] # NL
         IN <<SubSeq(data, 1, k - 1)>> \o Split(SubSeq(data, k + 1, Len(data)))

\* lines.join("\n")
RECURSIVE Join(_)
Join(lines) ==
    IF Len(lines) = 0 THEN << >>
    ELSE IF Len(lines) = 1 THEN lines[1]
    ELSE lines[1] \o <<NL>> \o Join(Tail(lines))

\* --------------------------------------------------------------- FileUtils
\* A text file: whether the path exists, and its content.
AbsentFile == [exists |-> FALSE, data |-> << >>]
TextFile(data) == [exists |-> TRUE, data |-> data]

readLines(file) == Split(file.data)

\* A doesFileContain that looks at the first line only: with it a tracked
\* execution is fetched again.
doesFileContain_firstLine(file, searchString) ==
    /\ file.exists
    /\ Includes(readLines(file)[1], searchString)

doesFileContain(file, searchString) ==
    IF ~file.exists THEN FALSE
    ELSE LET lines == readLines(file)
         IN \E k \in 1..Len(lines) : Includes(lines[k], searchString)

\* An appendToFirstLine that overwrites the file: with it a repeat run
\* collects again.
appendToFirstLine_replace(file, content) == TextFile(content)

\* An appendToFirstLine that keeps the first line only: with it a record
\* removes the keys recorded before.
appendToFirstLine_truncate(file, content) ==
    TextFile(Split(file.data)[1] \o <<NL>> \o content)

appendToFirstLine(file, content) ==
    LET lines == Split(file.data) IN
    IF Len(lines) = 0 THEN TextFile(content)
    ELSE TextFile(Join([lines EXCEPT ![1] = lines[1] \o <<NL>> \o content]))

\* ------------------------------------------------------------------- state
VARIABLES
    listing,        \* DWS: executions of the queue, newest first
    now,            \* the last value Date.now() returned
    faults,         \* enrichment calls that have thrown so far, all runs
    runNo,          \* runs started so far
    tracker,        \* reports/<storeStatusFile>
    artifacts,      \* report files, by path
    cacheFile,      \* test-name-jira-key-mapping.json
    pc,             \* where the current run stands
    N,              \* numberOfTestResultsToCollect of the run
    snapshot,       \* automatedQueuesData.data.Value of the run
    i,              \* loop index of processAutomatedQueues (1-based)
    batch,          \* automatedTestList.data.Value being built
    pending,        \* failed tests whose enrichment task has not ended
    threw,          \* failed tests whose getHistoryDetail threw
    cache,          \* the lookup cache in memory
    results,        \* results of searchIssuesByTestNames
    uncached,       \* uncachedTestNames
    bi,             \* start of the current batch in uncached (0-based)
    todo,           \* names of the current batch whose search has not ended
    errAt,          \* the step that threw, when pc = "error"
    unmarked,       \* the execution a stopped run had written and not marked, or 0
    log,            \* the fetches, writes and marks of the run, in order
    searched,       \* the names the run issued a search call for
    resolved,       \* the names the run resolved, from cache or by search
    trackerAtStart, \* tracker when the run started
    artifactsAtStart, \* artifacts when the run started
    cacheSizeAtStart, \* entries of the persisted cache when the run started
    writtenAt,      \* per execution, the paths its report was written to
    prev            \* how the previous run ended

\* State of the other programs and settings modelled further down; the
\* collector run above leaves it alone.
VARIABLES
    wk,             \* per parallel worker (queue): where its test stands, its locals
    trackers,       \* per queue, its tracker file (parallel workers)
    parArtifacts,   \* report files of all queues, by path (parallel workers)
    tests,          \* testResults.data.Value handed to calculateQueueSummary
    summary,        \* what calculateQueueSummary returned
    summaryFile,    \* reports/<standardName>-queue-results.json
    recorded        \* the keys appended to the tracker, most recent first

extVars == <<wk, trackers, parArtifacts, tests, summary, summaryFile, recorded>>

fsVars == <<tracker, artifacts, cacheFile>>
runVars == <<pc, N, snapshot, i, errAt, unmarked>>
batchVars == <<batch, pending, threw>>
jiraVars == <<cache, results, uncached, bi, todo>>
histVars == <<log, searched, resolved, trackerAtStart,
              artifactsAtStart, cacheSizeAtStart, writtenAt, prev>>
vars == <<listing, now, faults, runNo, fsVars, runVars, batchVars, jiraVars,
          histVars, extVars>>

EmptyMap == [n \in {} |-> Null]
NoArtifacts == [p \in {} |-> 0]

\* A function with one more (or one replaced) entry.
Put(f, k, v) == [x \in DOMAIN f \cup {k} |-> IF x = k THEN v ELSE f[x]]

\* The locals of an iteration, and of enrichTestResultsWithJiraKeys, are gone
\* when it ends.
NoBatch ==
    /\ batch' = << >>
    /\ pending' = {}
    /\ threw' = {}

NoLookup ==
    /\ cache' = EmptyMap
    /\ results' = EmptyMap
    /\ uncached' = << >>
    /\ bi' = 0
    /\ todo' = {}

Ended == {"idle", "done", "error", "stopped"}
Running == pc \notin Ended

\* How the previous run ended: its status, its inputs until the run that follows
\* has read the listing and from then on whether that run has the same inputs,
\* the names it resolved, and the execution it had written and not marked.
NoPrev == [status |-> "none", snapshot |-> << >>, N |-> 0, same |-> FALSE,
           resolved |-> {}, unmarked |-> 0]

\* A summary file: whether the path exists, and the array it holds.
AbsentSummaries == [exists |-> FALSE, list |-> << >>]
NoSummary == [queueId |-> << >>, date |-> 0, totalTests |-> 0, passed |-> 0,
              failed |-> 0, passedRate |-> 0, duration |-> << >>]

\* The other programs have not run.
ExtIdle ==
    /\ wk = << >>
    /\ trackers = << >>
    /\ parArtifacts = << >>
    /\ tests = << >>
    /\ summary = NoSummary
    /\ summaryFile = AbsentSummaries
    /\ recorded = << >>

\* No run of the collector has started and it has written no file.
CollectorIdle ==
    /\ listing = << >>
    /\ now = 0
    /\ faults = 0
    /\ runNo = 0
    /\ tracker = AbsentFile
    /\ artifacts = NoArtifacts
    /\ cacheFile = [exists |-> FALSE, wellFormed |-> TRUE, map |-> EmptyMap]
    /\ pc = "idle"
    /\ N = 0
    /\ snapshot = << >>
    /\ i = 0
    /\ batch = << >>
    /\ pending = {}
    /\ threw = {}
    /\ cache = EmptyMap
    /\ results = EmptyMap
    /\ uncached = << >>
    /\ bi = 0
    /\ todo = {}
    /\ errAt = ""
    /\ unmarked = 0
    /\ log = << >>
    /\ searched = {}
    /\ resolved = {}
    /\ trackerAtStart = AbsentFile
    /\ artifactsAtStart = NoArtifacts
    /\ cacheSizeAtStart = 0
    /\ writtenAt = [e \in ExecIds |-> {}]
    /\ prev = NoPrev

Init == CollectorIdle /\ ExtIdle

\* ---------------------------------------------------------- the remote side
\* The platform lists a new, later execution of the queue in front of the
\* others. A run reads the listing once, so a change during a run is a change
\* after it.
NewExecution(e) ==
    /\ ~Running
    /\ Len(listing) < MaxListing
    /\ \A k \in 1..Len(listing) : listing[k] < e
    /\ listing' = <<e>> \o listing
    /\ UNCHANGED <<now, faults, runNo, fsVars, runVars, batchVars, jiraVars, histVars>>
    /\ UNCHANGED extVars

\* ------------------------------------------------------------ the test body
CacheSize(file) ==
    IF file.exists /\ file.wellFormed THEN Cardinality(DOMAIN file.map) ELSE 0

\* test(`${queue.name} - Collect ...`) starts.
StartRun(n) ==
    /\ ~Running
    /\ runNo < MaxRuns
    /\ runNo' = runNo + 1
    /\ N' = n
    /\ pc' = "find"
    /\ snapshot' = << >>
    /\ i' = 0
    /\ errAt' = ""
    /\ unmarked' = 0
    /\ log' = << >>
    /\ searched' = {}
    /\ resolved' = {}
    /\ trackerAtStart' = tracker
    /\ artifactsAtStart' = artifacts
    /\ cacheSizeAtStart' = CacheSize(cacheFile)
    /\ prev' = IF pc = "idle" THEN NoPrev
               ELSE [status |-> pc, snapshot |-> snapshot, N |-> N,
                     same |-> FALSE, resolved |-> resolved,
                     unmarked |-> unmarked]
    /\ UNCHANGED <<listing, now, faults, fsVars, batchVars, jiraVars, writtenAt>>
    /\ UNCHANGED extVars

\* dwsApi.findQueueItemByTitle: the call throws, or finds no item with a key,
\* or returns the queue item.
FindQueue ==
    /\ pc = "find"
    /\ \E outcome \in {"ok", "throw", "nokey"} :
         IF outcome = "ok"
         THEN pc' = "list" /\ errAt' = errAt
         ELSE pc' = "error" /\ errAt' = "find"
    /\ UNCHANGED <<listing, now, faults, runNo, fsVars, N, snapshot, i, unmarked,
                   batchVars, jiraVars, histVars>>
    /\ UNCHANGED extVars

\* A listing step that creates the tracker file before it fails: with it a
\* failed listing changes the tracker.
ListQueues_touch ==
    /\ pc = "list"
    /\ \E outcome \in {"ok", "throw", "novalue"} :
         IF outcome = "ok"
         THEN /\ snapshot' = listing
              /\ i' = Min(N, Len(listing))
              /\ pc' = "check"
              /\ errAt' = errAt
              /\ prev' = [prev EXCEPT !.snapshot = << >>, !.N = 0,
                                      !.same = prev.status # "none"
                                               /\ prev.snapshot = listing
                                               /\ prev.N = N]
              /\ tracker' = tracker
         ELSE /\ pc' = "error"
              /\ errAt' = IF outcome = "throw" THEN "list" ELSE "novalue"
              /\ tracker' = IF tracker.exists THEN tracker ELSE TextFile(<< >>)
              /\ UNCHANGED <<snapshot, i, prev>>
    /\ UNCHANGED <<listing, now, faults, runNo, artifacts, cacheFile, N, unmarked,
                   batchVars, jiraVars, log, searched, resolved, trackerAtStart,
                   artifactsAtStart, cacheSizeAtStart, writtenAt>>
    /\ UNCHANGED extVars

\* dwsApi.getAutomatedTestQueuesForTestQueue, then the head of
\* processAutomatedQueues: the call throws, or its answer has no data.Value,
\* or the loop starts at index min(N, count) - 1.
ListQueues ==
    /\ pc = "list"
    /\ \E outcome \in {"ok", "throw", "novalue"} :
         IF outcome = "ok"
         THEN /\ snapshot' = listing
              /\ i' = Min(N, Len(listing))
              /\ pc' = "check"
              /\ errAt' = errAt
              /\ prev' = [prev EXCEPT !.snapshot = << >>, !.N = 0,
                                      !.same = prev.status # "none"
                                               /\ prev.snapshot = listing
                                               /\ prev.N = N]
         ELSE /\ pc' = "error"
              /\ errAt' = IF outcome = "throw" THEN "list" ELSE "novalue"
              /\ UNCHANGED <<snapshot, i, prev>>
    /\ UNCHANGED <<listing, now, faults, runNo, fsVars, N, unmarked, batchVars,
                   jiraVars, log, searched, resolved, trackerAtStart,
                   artifactsAtStart, cacheSizeAtStart, writtenAt>>
    /\ UNCHANGED extVars

\* The loop test and the dedup check of processAutomatedQueues.
CheckProcessed ==
    /\ pc = "check"
    /\ IF i = 0
       THEN pc' = "done" /\ i' = i
       ELSE IF doesFileContain(tracker, ExecKey(snapshot[i]))
            THEN pc' = "check" /\ i' = i - 1
            ELSE pc' = "fetch" /\ i' = i
    /\ UNCHANGED <<listing, now, faults, runNo, fsVars, N, snapshot, errAt, unmarked,
                   batchVars, jiraVars, histVars>>
    /\ UNCHANGED extVars

\* ------------------------------------- DwsApi.getAutomatedTestListForTestQueue
NoImage == [kind |-> "unset", ref |-> "", name |-> << >>, ts |-> 0]
RawImage(ref) == [kind |-> "raw", ref |-> ref, name |-> << >>, ts |-> 0]
\* `screenshots/${sanitizedTestName}_${timestamp}.png`
LocalImage(name, t) == [kind |-> "local", ref |-> "", name |-> name, ts |-> t]

\* A record as the list call returns it: no enrichment field is set.
RawRecord(r) ==
    [rid |-> r, cErrorTitle |-> Unset, cErrorDescription |-> Unset,
     cImageUrl |-> NoImage, cJiraKey |-> Unset]

\* (test as any).key of a record; 0 when the record carries none.
RecKey(r) == IF r = 25 THEN 0 ELSE r

\* A filter that compares the case too: with it a record whose value is
\* "Fail" gets no detail fetch.
IsFailedTest_exact(r) == RecSuccessful(r) = "FAIL" /\ RecKey(r) # 0

\* The filter that selects failedTests.
IsFailedTest(r) == Lower(RecSuccessful(r)) = Lower("FAIL") /\ RecKey(r) # 0

\* A find that does not look at the status: with it the fields of a disabled
\* step are copied.
FirstFailedDetail_anyStatus(steps) ==
    LET hits == {k \in 1..Len(steps) :
                    Lower(steps[k].successful) = Lower("FAIL")}
    IN IF hits = {} THEN 0 ELSE CHOOSE k \in hits : \A h \in hits : k <= h

\* historyDetails.find(...): the index of the first failed step that is not
\* disabled, or 0.
FirstFailedDetail(steps) ==
    LET hits == {k \in 1..Len(steps) :
                    /\ Lower(steps[k].successful) = Lower("FAIL")
                    /\ steps[k].executionStatus # "Disabled"}
    IN IF hits = {} THEN 0 ELSE CHOOSE k \in hits : \A h \in hits : k <= h

\* A task whose catch block fills in a title: with it a record whose detail
\* fetch threw has a failure field.
EnrichFailedTest_titleOnThrow(rec, outcome, t) ==
    LET steps == RecSteps(rec.rid)
        f == FirstFailedDetail(steps)
    IN IF outcome = "throw" THEN [rec EXCEPT !.cErrorTitle = "error"]
       ELSE IF f = 0 THEN rec
       ELSE LET titled == [rec EXCEPT !.cErrorTitle = steps[f].title,
                                      !.cErrorDescription = steps[f].description]
            IN IF steps[f].key = "" THEN titled
               ELSE IF outcome = "dlfail"
                    THEN [titled EXCEPT !.cImageUrl = RawImage(steps[f].key)]
                    ELSE [titled EXCEPT !.cImageUrl =
                              LocalImage(SanitizeName(RecName(rec.rid)), t)]

\* A task without the fallback to the original reference: with it a failed
\* download leaves title and description without a screenshot reference.
EnrichFailedTest_noFallback(rec, outcome, t) ==
    LET steps == RecSteps(rec.rid)
        f == FirstFailedDetail(steps)
    IN IF outcome = "throw" \/ f = 0 THEN rec
       ELSE LET titled == [rec EXCEPT !.cErrorTitle = steps[f].title,
                                      !.cErrorDescription = steps[f].description]
            IN IF steps[f].key = "" \/ outcome = "dlfail" THEN titled
               ELSE [titled EXCEPT !.cImageUrl =
                         LocalImage(SanitizeName(RecName(rec.rid)), t)]

\* A task that gives up the record when the download fails: with it a failed
\* download leaves the record without title and description.
EnrichFailedTest_dropOnFail(rec, outcome, t) ==
    LET steps == RecSteps(rec.rid)
        f == FirstFailedDetail(steps)
    IN IF outcome \in {"throw", "dlfail"} \/ f = 0 THEN rec
       ELSE LET titled == [rec EXCEPT !.cErrorTitle = steps[f].title,
                                      !.cErrorDescription = steps[f].description]
            IN IF steps[f].key = "" THEN titled
               ELSE [titled EXCEPT !.cImageUrl =
                         LocalImage(SanitizeName(RecName(rec.rid)), t)]

\* One task of the Promise.all over failedTests. outcome: "throw" when
\* getHistoryDetail throws, "dlfail" when downloadImage throws, "ok" otherwise;
\* t is what Date.now() returns.
EnrichFailedTest(rec, outcome, t) ==
    LET steps == RecSteps(rec.rid)
        f == FirstFailedDetail(steps)
    IN IF outcome = "throw" \/ f = 0 THEN rec
       ELSE LET titled == [rec EXCEPT !.cErrorTitle = steps[f].title,
                                      !.cErrorDescription = steps[f].description]
            IN IF steps[f].key = "" THEN titled
               ELSE IF outcome = "dlfail"
                    THEN [titled EXCEPT !.cImageUrl = RawImage(steps[f].key)]
                    ELSE [titled EXCEPT !.cImageUrl =
                              LocalImage(SanitizeName(RecName(rec.rid)), t)]

\* Whether the task of this record, its detail fetched, calls downloadImage.
DownloadsImage(rec) ==
    LET steps == RecSteps(rec.rid)
        f == FirstFailedDetail(steps)
    IN f # 0 /\ steps[f].key # ""

\* A list request that returns while the enrichment tasks are pending: with
\* it the lookup starts before the detail fetches have ended.
FetchResults_noAwait ==
    /\ pc = "fetch"
    /\ LET e == snapshot[i]
           recs == ExecRecs(e)
       IN /\ batch' = [k \in 1..Len(recs) |-> RawRecord(recs[k])]
          /\ pending' = {k \in 1..Len(recs) : IsFailedTest(recs[k])}
          /\ threw' = {}
          /\ log' = Append(log, <<"fetch", e>>)
          /\ pc' = "jira"
    /\ UNCHANGED <<listing, now, faults, runNo, fsVars, N, snapshot, i, errAt,
                   unmarked, jiraVars, searched, resolved, trackerAtStart,
                   artifactsAtStart, cacheSizeAtStart, writtenAt, prev>>
    /\ UNCHANGED extVars

\* The list request: it throws, or returns the records; the enrichment tasks
\* of the failed tests start.
FetchResults ==
    /\ pc = "fetch"
    /\ \E outcome \in {"ok", "throw"} :
         IF outcome = "throw"
         THEN /\ pc' = "error"
              /\ errAt' = "fetch"
              /\ log' = Append(log, <<"fetch", snapshot[i]>>)
              /\ UNCHANGED batchVars
         ELSE LET e == snapshot[i]
                  recs == ExecRecs(e)
                  failedTests == {k \in 1..Len(recs) : IsFailedTest(recs[k])}
              IN /\ batch' = [k \in 1..Len(recs) |-> RawRecord(recs[k])]
                 /\ pending' = failedTests
                 /\ threw' = {}
                 /\ log' = Append(log, <<"fetch", e>>)
                 /\ pc' = IF failedTests = {} THEN "jira" ELSE "detail"
                 /\ errAt' = errAt
    /\ UNCHANGED <<listing, now, faults, runNo, fsVars, N, snapshot, i, unmarked,
                   jiraVars, searched, resolved, trackerAtStart,
                   artifactsAtStart, cacheSizeAtStart, writtenAt, prev>>
    /\ UNCHANGED extVars

\* One enrichment task runs to its end; the tasks end in any order.
EnrichTask(k) ==
    /\ pc = "detail"
    /\ k \in pending
    /\ \E outcome \in {"ok", "throw", "dlfail"} :
       \E t \in {now, Min(now + 1, MaxNow)} :
         /\ outcome # "ok" => faults < MaxFaults
         /\ outcome = "dlfail" => DownloadsImage(batch[k])
         /\ batch' = [batch EXCEPT ![k] = EnrichFailedTest(batch[k], outcome, t)]
         /\ threw' = IF outcome = "throw" THEN threw \cup {k} ELSE threw
         /\ now' = IF batch'[k].cImageUrl.kind = "unset" THEN now ELSE t
         /\ faults' = IF outcome = "ok" THEN faults ELSE faults + 1
    /\ pending' = pending \ {k}
    /\ pc' = IF pending' = {} THEN "jira" ELSE "detail"
    /\ UNCHANGED <<listing, runNo, fsVars, N, snapshot, i, errAt, unmarked,
                   jiraVars, histVars>>
    /\ UNCHANGED extVars

\* ------------------------------------------------ the issue-key lookup cache
loadJiraMappingCache(file) ==
    IF file.exists /\ file.wellFormed THEN file.map ELSE EmptyMap

\* A saveJiraMappingCache that keeps the names with an issue key only: with it
\* a name without issue is searched for in every run.
saveJiraMappingCache_nonNull(map) ==
    [exists |-> TRUE, wellFormed |-> TRUE,
     map |-> [n \in {x \in DOMAIN map : map[x] # Null} |-> map[n]]]

saveJiraMappingCache(map) == [exists |-> TRUE, wellFormed |-> TRUE, map |-> map]

\* A cache test on the value (cache.get(testName) truthy): with it a cached
\* null is searched for again.
isCached_truthy(map, name) == name \in DOMAIN map /\ map[name] # Null

\* cache.has(testName)
isCached(map, name) == name \in DOMAIN map

\* [...new Set(names)]
RECURSIVE Unique(_)
Unique(names) ==
    IF names = << >> THEN << >>
    ELSE LET init == Unique(SubSeq(names, 1, Len(names) - 1))
             last == names[Len(names)]
         IN IF \E k \in 1..Len(init) : init[k] = last THEN init
            ELSE Append(init, last)

RECURSIVE Filter(_, _)
Filter(names, keep) ==
    IF names = << >> THEN << >>
    ELSE IF names[1] \in keep THEN <<names[1]>> \o Filter(Tail(names), keep)
    ELSE Filter(Tail(names), keep)

\* A slice one name wider than the batch size: with it six searches are in
\* flight.
Slice_wide(names, from) ==
    {names[k] : k \in (from + 1)..Min(from + batchSize + 1, Len(names))}

\* uncachedTestNames.slice(from, from + batchSize), as a set
Slice(names, from) ==
    {names[k] : k \in (from + 1)..Min(from + batchSize, Len(names))}

\* A value that is left absent for a name without issue: with it a record
\* is written without cJiraKey.
KeyOrNull_absent(map, name) ==
    IF name \in DOMAIN map /\ map[name] # Null THEN map[name] ELSE Unset

\* jiraResults.get(name) || null
KeyOrNull(map, name) == IF name \in DOMAIN map THEN map[name] ELSE Null

\* enrichTestResultsWithJiraKeys up to the first batch of search calls: the
\* cache is loaded, the hits are answered from it, and the calls of the
\* first batch of misses are issued.
JiraLoad ==
    /\ pc = "jira"
    /\ LET loaded == loadJiraMappingCache(cacheFile)
           testNames == Unique([k \in 1..Len(batch) |-> RecName(batch[k].rid)])
           names == {testNames[k] : k \in 1..Len(testNames)}
           hits == {n \in names : isCached(loaded, n)}
           misses == Filter(testNames, names \ hits)
       IN /\ cache' = loaded
          /\ results' = [n \in hits |-> loaded[n]]
          /\ uncached' = misses
          /\ bi' = 0
          /\ todo' = Slice(misses, 0)
          /\ searched' = searched \cup Slice(misses, 0)
          /\ resolved' = resolved \cup hits
          /\ pc' = IF misses = << >> THEN "assign" ELSE "search"
    /\ UNCHANGED <<listing, now, faults, runNo, fsVars, N, snapshot, i, errAt,
                   unmarked, batchVars, log, trackerAtStart, artifactsAtStart,
                   cacheSizeAtStart, writtenAt, prev>>
    /\ UNCHANGED extVars

\* A search whose catch block leaves the cache alone: with it a name whose
\* search threw is not cached.
SearchReply_noCacheOnThrow(n) ==
    /\ pc = "search"
    /\ n \in todo
    /\ \E outcome \in {"reply", "throw"} :
         LET v == IF outcome = "reply" THEN JiraIssue(n) ELSE Null
         IN /\ outcome = "throw" => faults < MaxFaults
            /\ results' = Put(results, n, v)
            /\ cache' = IF outcome = "throw" THEN cache ELSE Put(cache, n, v)
            /\ faults' = IF outcome = "throw" THEN faults + 1 ELSE faults
    /\ resolved' = resolved \cup {n}
    /\ IF todo # {n}
       THEN /\ todo' = todo \ {n}
            /\ UNCHANGED <<bi, searched, pc>>
       ELSE /\ bi' = bi + batchSize
            /\ todo' = Slice(uncached, bi + batchSize)
            /\ searched' = searched \cup Slice(uncached, bi + batchSize)
            /\ pc' = IF bi + batchSize < Len(uncached) THEN "search" ELSE "assign"
    /\ UNCHANGED <<listing, now, runNo, fsVars, N, snapshot, i, errAt,
                   unmarked, batchVars, uncached, log, trackerAtStart,
                   artifactsAtStart, cacheSizeAtStart, writtenAt, prev>>
    /\ UNCHANGED extVars

\* One search call of the current batch ends: with the tracker's answer, or
\* by throwing. When the last call of the batch has ended, the calls of the
\* next batch are issued.
SearchReply(n) ==
    /\ pc = "search"
    /\ n \in todo
    /\ \E outcome \in {"reply", "throw"} :
         LET v == IF outcome = "reply" THEN JiraIssue(n) ELSE Null
         IN /\ outcome = "throw" => faults < MaxFaults
            /\ results' = Put(results, n, v)
            /\ cache' = Put(cache, n, v)
            /\ faults' = IF outcome = "throw" THEN faults + 1 ELSE faults
    /\ resolved' = resolved \cup {n}
    /\ IF todo # {n}
       THEN /\ todo' = todo \ {n}
            /\ UNCHANGED <<bi, searched, pc>>
       ELSE /\ bi' = bi + batchSize
            /\ todo' = Slice(uncached, bi + batchSize)
            /\ searched' = searched \cup Slice(uncached, bi + batchSize)
            /\ pc' = IF bi + batchSize < Len(uncached) THEN "search" ELSE "assign"
    /\ UNCHANGED <<listing, now, runNo, fsVars, N, snapshot, i, errAt,
                   unmarked, batchVars, uncached, log, trackerAtStart,
                   artifactsAtStart, cacheSizeAtStart, writtenAt, prev>>
    /\ UNCHANGED extVars

\* A save that is skipped when the file on disk is malformed: with it a
\* malformed cache file is never replaced.
JiraAssign_keepMalformed ==
    /\ pc = "assign"
    /\ batch' = [k \in 1..Len(batch) |->
                    [batch[k] EXCEPT !.cJiraKey =
                         KeyOrNull(results, RecName(batch[k].rid))]]
    /\ cacheFile' = IF cacheFile.exists /\ ~cacheFile.wellFormed THEN cacheFile
                    ELSE [exists |-> TRUE, wellFormed |-> TRUE, map |-> cache]
    /\ NoLookup
    /\ pc' = "write"
    /\ UNCHANGED <<listing, now, faults, runNo, tracker, artifacts, N, snapshot, i,
                   errAt, unmarked, pending, threw, histVars>>
    /\ UNCHANGED extVars

\* The rest of enrichTestResultsWithJiraKeys: cJiraKey is set on every record
\* and the cache is saved.
JiraAssign ==
    /\ pc = "assign"
    /\ batch' = [k \in 1..Len(batch) |->
                    [batch[k] EXCEPT !.cJiraKey =
                         KeyOrNull(results, RecName(batch[k].rid))]]
    /\ cacheFile' = saveJiraMappingCache(cache)
    /\ NoLookup
    /\ pc' = "write"
    /\ UNCHANGED <<listing, now, faults, runNo, tracker, artifacts, N, snapshot, i,
                   errAt, unmarked, pending, threw, histVars>>
    /\ UNCHANGED extVars

\* A report path that depends on the run: with it a re-driven execution has
\* two report files.
ReportPath_perRun(e) == <<ExecTs(e).date, ExecTs(e).sec + runNo>>

\* ------------------------------------------------------ saveAutomatedTestList
\* path.join(REPORTS_PATH, format(ts, "yyyy-MM-dd"),
\*           `${sanitize(project.name)}_${format(ts, "HH-mm-ss")}.json`)
ReportPath(e) == <<ExecTs(e).date, ExecTs(e).sec>>

\* JSON.stringify(automatedTestList): the document written for execution e.
Report(e, value) == [exec |-> e, value |-> value]

\* A saveAutomatedTestList whose write fails silently: with it a key is
\* marked that has no report.
WriteReport_swallow ==
    /\ pc = "write"
    /\ IF ~ExecTs(snapshot[i]).has
       THEN /\ pc' = "error"
            /\ errAt' = "nots"
            /\ NoBatch
       ELSE /\ pc' = "ensure"
            /\ errAt' = errAt
            /\ UNCHANGED batchVars
    /\ UNCHANGED <<listing, now, faults, runNo, fsVars, N, snapshot, i, unmarked,
                   jiraVars, histVars>>
    /\ UNCHANGED extVars

\* A saveAutomatedTestList that tests the timestamp after the write: with it
\* an execution without timestamp leaves a report file.
WriteReport_lateTest ==
    /\ pc = "write"
    /\ LET e == snapshot[i] IN
       /\ artifacts' = Put(artifacts, ReportPath(e), Report(e, batch))
       /\ log' = Append(log, <<"write", e>>)
       /\ writtenAt' = [writtenAt EXCEPT ![e] = @ \cup {ReportPath(e)}]
       /\ IF ~ExecTs(e).has
          THEN /\ pc' = "error"
               /\ errAt' = "nots"
               /\ NoBatch
          ELSE /\ pc' = "ensure"
               /\ errAt' = errAt
               /\ UNCHANGED batchVars
    /\ UNCHANGED <<listing, now, faults, runNo, tracker, cacheFile, N, snapshot, i,
                   unmarked, jiraVars, searched, resolved,
                   trackerAtStart, artifactsAtStart, cacheSizeAtStart, prev>>
    /\ UNCHANGED extVars

\* The timestamp test, mkdir and the write of the report file.
WriteReport ==
    /\ pc = "write"
    /\ LET e == snapshot[i] IN
       IF ~ExecTs(e).has
       THEN /\ pc' = "error"
            /\ errAt' = "nots"
            /\ NoBatch
            /\ UNCHANGED <<artifacts, log, writtenAt>>
       ELSE /\ artifacts' = Put(artifacts, ReportPath(e), Report(e, batch))
            /\ log' = Append(log, <<"write", e>>)
            /\ writtenAt' = [writtenAt EXCEPT ![e] = @ \cup {ReportPath(e)}]
            /\ pc' = "ensure"
            /\ errAt' = errAt
            /\ UNCHANGED batchVars
    /\ UNCHANGED <<listing, now, faults, runNo, tracker, cacheFile, N, snapshot, i,
                   unmarked, jiraVars, searched, resolved,
                   trackerAtStart, artifactsAtStart, cacheSizeAtStart, prev>>
    /\ UNCHANGED extVars

\* The tracker file is created empty when it does not exist.
EnsureTracker ==
    /\ pc = "ensure"
    /\ tracker' = IF tracker.exists THEN tracker ELSE TextFile(<< >>)
    /\ pc' = "mark"
    /\ UNCHANGED <<listing, now, faults, runNo, artifacts, cacheFile, N, snapshot, i,
                   errAt, unmarked, batchVars, jiraVars, histVars>>
    /\ UNCHANGED extVars

\* A mark step that rewrites the report it marks: with it a step other than
\* the report write changes a report file.
MarkProcessed_stamp ==
    /\ pc = "mark"
    /\ tracker' = appendToFirstLine(tracker, ExecKey(snapshot[i]))
    /\ artifacts' = Put(artifacts, ReportPath(snapshot[i]),
                        Report(snapshot[i], << >>))
    /\ log' = Append(log, <<"mark", snapshot[i]>>)
    /\ i' = i - 1
    /\ pc' = "check"
    /\ NoBatch
    /\ UNCHANGED <<listing, now, faults, runNo, cacheFile, N, snapshot,
                   errAt, unmarked, jiraVars, searched, resolved,
                   trackerAtStart, artifactsAtStart, cacheSizeAtStart,
                   writtenAt, prev>>
    /\ UNCHANGED extVars

\* A loop that goes on without the mark: with it the next execution is
\* fetched while the one before is not in the tracker.
MarkProcessed_skip ==
    /\ pc = "mark"
    /\ i' = i - 1
    /\ pc' = "check"
    /\ NoBatch
    /\ UNCHANGED <<listing, now, faults, runNo, fsVars, N, snapshot,
                   errAt, unmarked, jiraVars, histVars>>
    /\ UNCHANGED extVars

\* FileUtils.appendToFirstLine(storeStatusFilePath, automatedQueue.key), and
\* the loop goes on to the next newer execution.
MarkProcessed ==
    /\ pc = "mark"
    /\ tracker' = appendToFirstLine(tracker, ExecKey(snapshot[i]))
    /\ log' = Append(log, <<"mark", snapshot[i]>>)
    /\ i' = i - 1
    /\ pc' = "check"
    /\ NoBatch
    /\ UNCHANGED <<listing, now, faults, runNo, artifacts, cacheFile, N, snapshot,
                   errAt, unmarked, jiraVars, searched, resolved,
                   trackerAtStart, artifactsAtStart, cacheSizeAtStart,
                   writtenAt, prev>>
    /\ UNCHANGED extVars

\* The process is stopped (killed, or timed out by the test runner) before
\* its next step.
Stop ==
    /\ Running
    /\ unmarked' = IF pc \in {"ensure", "mark"} THEN snapshot[i] ELSE 0
    /\ pc' = "stopped"
    /\ i' = 0
    /\ NoBatch
    /\ NoLookup
    /\ UNCHANGED <<listing, now, faults, runNo, fsVars, N, snapshot, errAt,
                   histVars>>
    /\ UNCHANGED extVars

Next ==
    \/ \E e \in ExecIds : NewExecution(e)
    \/ \E n \in NValues : StartRun(n)
    \/ FindQueue
    \/ ListQueues
    \/ CheckProcessed
    \/ FetchResults
    \/ \E k \in pending : EnrichTask(k)
    \/ JiraLoad
    \/ \E n \in todo : SearchReply(n)
    \/ JiraAssign
    \/ WriteReport
    \/ EnsureTracker
    \/ MarkProcessed
    \/ Stop

Spec == Init /\ [][Next]_vars

\* ------------------------------------- one lookup, from any cache file
\* The cache files a lookup may find: none, one that does not parse, and
\* well-formed ones.
MalformedCacheFile == [exists |-> TRUE, wellFormed |-> FALSE, map |-> EmptyMap]

SearchCacheFiles ==
    {[exists |-> FALSE, wellFormed |-> TRUE, map |-> EmptyMap],
     MalformedCacheFile,
     saveJiraMappingCache(EmptyMap),
     saveJiraMappingCache(Put(Put(EmptyMap, NameA, "PRJ-1"), NameB, Null)),
     saveJiraMappingCache(Put(EmptyMap, NameG, Null))}

\* The first run of the collector has listed one execution and fetched its
\* results, passed and failed, the failed test without a failed step in its
\* history; enrichTestResultsWithJiraKeys is about to be called.
SearchInit ==
    /\ listing = <<BigExec>>
    /\ now = 0
    /\ faults = 0
    /\ runNo = 1
    /\ tracker = AbsentFile
    /\ artifacts = NoArtifacts
    /\ cacheFile \in SearchCacheFiles
    /\ pc = "jira"
    /\ N = 1
    /\ snapshot = <<BigExec>>
    /\ i = 1
    /\ batch = [k \in 1..Len(ExecRecs(BigExec)) |-> RawRecord(ExecRecs(BigExec)[k])]
    /\ pending = {}
    /\ threw = {}
    /\ cache = EmptyMap
    /\ results = EmptyMap
    /\ uncached = << >>
    /\ bi = 0
    /\ todo = {}
    /\ errAt = ""
    /\ unmarked = 0
    /\ log = << <<"fetch", BigExec>> >>
    /\ searched = {}
    /\ resolved = {}
    /\ trackerAtStart = AbsentFile
    /\ artifactsAtStart = NoArtifacts
    /\ cacheSizeAtStart = CacheSize(cacheFile)
    /\ writtenAt = [e \in ExecIds \cup {BigExec} |-> {}]
    /\ prev = NoPrev
    /\ ExtIdle

SearchNext ==
    \/ JiraLoad
    \/ \E n \in todo : SearchReply(n)
    \/ JiraAssign
    \/ WriteReport
    \/ EnsureTracker
    \/ MarkProcessed
    \/ CheckProcessed

SpecSearch == SearchInit /\ [][SearchNext]_vars

\* ------------------------------- one fetch, with records of every kind
\* The first run of the collector has listed one execution and is about to
\* call getAutomatedTestListForTestQueue for it.
DetailInit ==
    /\ listing = <<DetailExec>>
    /\ now = 0
    /\ faults = 0
    /\ runNo = 1
    /\ tracker = AbsentFile
    /\ artifacts = NoArtifacts
    /\ cacheFile = [exists |-> FALSE, wellFormed |-> TRUE, map |-> EmptyMap]
    /\ pc = "fetch"
    /\ N = 1
    /\ snapshot = <<DetailExec>>
    /\ i = 1
    /\ batch = << >>
    /\ pending = {}
    /\ threw = {}
    /\ cache = EmptyMap
    /\ results = EmptyMap
    /\ uncached = << >>
    /\ bi = 0
    /\ todo = {}
    /\ errAt = ""
    /\ unmarked = 0
    /\ log = << >>
    /\ searched = {}
    /\ resolved = {}
    /\ trackerAtStart = AbsentFile
    /\ artifactsAtStart = NoArtifacts
    /\ cacheSizeAtStart = 0
    /\ writtenAt = [e \in ExecIds \cup {DetailExec} |-> {}]
    /\ prev = NoPrev
    /\ ExtIdle

DetailNext ==
    \/ FetchResults
    \/ \E k \in pending : EnrichTask(k)

SpecDetail == DetailInit /\ [][DetailNext]_vars

\* ------------------------ a listing with an execution without timestamp
\* The platform lists three executions, the one in the middle without start
\* timestamp; no run has started and no file is written.
NoTsInit ==
    /\ listing = <<LaterExec, NoTsExec, 1>>
    /\ now = 0
    /\ faults = 0
    /\ runNo = 0
    /\ tracker = AbsentFile
    /\ artifacts = NoArtifacts
    /\ cacheFile = [exists |-> FALSE, wellFormed |-> TRUE, map |-> EmptyMap]
    /\ pc = "idle"
    /\ N = 0
    /\ snapshot = << >>
    /\ i = 0
    /\ batch = << >>
    /\ pending = {}
    /\ threw = {}
    /\ cache = EmptyMap
    /\ results = EmptyMap
    /\ uncached = << >>
    /\ bi = 0
    /\ todo = {}
    /\ errAt = ""
    /\ unmarked = 0
    /\ log = << >>
    /\ searched = {}
    /\ resolved = {}
    /\ trackerAtStart = AbsentFile
    /\ artifactsAtStart = NoArtifacts
    /\ cacheSizeAtStart = 0
    /\ writtenAt = [e \in ExecIds \cup {NoTsExec, LaterExec} |-> {}]
    /\ prev = NoPrev
    /\ ExtIdle

NoTsNext ==
    \/ \E n \in 1..3 : StartRun(n)
    \/ FindQueue
    \/ ListQueues
    \/ CheckProcessed
    \/ FetchResults
    \/ \E k \in pending : EnrichTask(k)
    \/ JiraLoad
    \/ \E n \in todo : SearchReply(n)
    \/ JiraAssign
    \/ WriteReport
    \/ EnsureTracker
    \/ MarkProcessed

SpecNoTs == NoTsInit /\ [][NoTsNext]_vars

\* ------------------------------------------- two workers, one queue each
\* The tests of two queues run in two Playwright workers at the same time
\* (fullyParallel, workers undefined). Each has its own tracker file and its
\* own report names; test-name-jira-key-mapping.json is the same file for
\* both. Each queue lists one execution, whose results have no failed test,
\* and every call succeeds.
Queues == {"qa", "qb"}

\* The execution queue q lists.
QueueExec(q) == IF q = "qa" THEN 6 ELSE 7

\* filePath of a report of queue q: the sanitized queue name is part of the
\* file name.
QueueReportPath(q, e) == <<q, ReportPath(e)>>

\* The locals of a worker.
Worker(at, value, map, found, flying) ==
    [pc |-> at, batch |-> value, cache |-> map, results |-> found,
     todo |-> flying]

ParInit ==
    /\ CollectorIdle
    /\ wk = [q \in Queues |-> Worker("find", << >>, EmptyMap, EmptyMap, {})]
    /\ trackers = [q \in Queues |-> AbsentFile]
    /\ parArtifacts = NoArtifacts
    /\ tests = << >>
    /\ summary = NoSummary
    /\ summaryFile = AbsentSummaries
    /\ recorded = << >>

\* What a step of a worker leaves alone besides the files.
ParFrame ==
    UNCHANGED <<listing, now, faults, runNo, tracker, artifacts, runVars,
                batchVars, jiraVars, histVars, tests, summary, summaryFile,
                recorded>>

\* findQueueItemByTitle and getAutomatedTestQueuesForTestQueue return.
ParList(q) ==
    /\ wk[q].pc = "find"
    /\ wk' = [wk EXCEPT ![q].pc = "check"]
    /\ UNCHANGED <<cacheFile, trackers, parArtifacts>>
    /\ ParFrame

\* The dedup check on the queue's own tracker.
ParCheck(q) ==
    /\ wk[q].pc = "check"
    /\ wk' = [wk EXCEPT ![q].pc =
                 IF doesFileContain(trackers[q], ExecKey(QueueExec(q)))
                 THEN "done" ELSE "fetch"]
    /\ UNCHANGED <<cacheFile, trackers, parArtifacts>>
    /\ ParFrame

\* getAutomatedTestListForTestQueue returns; no record is a failed test.
ParFetch(q) ==
    /\ wk[q].pc = "fetch"
    /\ LET recs == ExecRecs(QueueExec(q))
       IN wk' = [wk EXCEPT ![q].pc = "jira",
                           ![q].batch = [k \in 1..Len(recs) |-> RawRecord(recs[k])]]
    /\ UNCHANGED <<cacheFile, trackers, parArtifacts>>
    /\ ParFrame

\* enrichTestResultsWithJiraKeys loads the cache file and issues the searches
\* for the names it does not hold.
ParLoad(q) ==
    /\ wk[q].pc = "jira"
    /\ LET loaded == loadJiraMappingCache(cacheFile)
           value == wk[q].batch
           testNames == Unique([k \in 1..Len(value) |-> RecName(value[k].rid)])
           names == {testNames[k] : k \in 1..Len(testNames)}
           hits == {n \in names : isCached(loaded, n)}
           misses == Filter(testNames, names \ hits)
       IN wk' = [wk EXCEPT ![q].cache = loaded,
                           ![q].results = [n \in hits |-> loaded[n]],
                           ![q].todo = Slice(misses, 0),
                           ![q].pc = IF misses = << >> THEN "assign" ELSE "search"]
    /\ UNCHANGED <<cacheFile, trackers, parArtifacts>>
    /\ ParFrame

\* One search call of the worker ends with the tracker's answer.
ParReply(q, n) ==
    /\ wk[q].pc = "search"
    /\ n \in wk[q].todo
    /\ wk' = [wk EXCEPT ![q].results = Put(@, n, JiraIssue(n)),
                        ![q].cache = Put(@, n, JiraIssue(n)),
                        ![q].todo = @ \ {n},
                        ![q].pc = IF wk[q].todo = {n} THEN "assign" ELSE "search"]
    /\ UNCHANGED <<cacheFile, trackers, parArtifacts>>
    /\ ParFrame

\* cJiraKey is set and the worker's map is saved to the cache file.
ParAssign(q) ==
    /\ wk[q].pc = "assign"
    /\ cacheFile' = saveJiraMappingCache(wk[q].cache)
    /\ wk' = [wk EXCEPT ![q].batch =
                            [k \in 1..Len(wk[q].batch) |->
                                [wk[q].batch[k] EXCEPT !.cJiraKey =
                                    KeyOrNull(wk[q].results,
                                              RecName(wk[q].batch[k].rid))]],
                        ![q].cache = EmptyMap,
                        ![q].results = EmptyMap,
                        ![q].pc = "write"]
    /\ UNCHANGED <<trackers, parArtifacts>>
    /\ ParFrame

\* saveAutomatedTestList writes the report.
ParWrite(q) ==
    /\ wk[q].pc = "write"
    /\ parArtifacts' = Put(parArtifacts, QueueReportPath(q, QueueExec(q)),
                           Report(QueueExec(q), wk[q].batch))
    /\ wk' = [wk EXCEPT ![q].pc = "ensure"]
    /\ UNCHANGED <<cacheFile, trackers>>
    /\ ParFrame

\* The queue's tracker file is created empty when it does not exist.
ParEnsure(q) ==
    /\ wk[q].pc = "ensure"
    /\ trackers' = [trackers EXCEPT ![q] =
                       IF @.exists THEN @ ELSE TextFile(<< >>)]
    /\ wk' = [wk EXCEPT ![q].pc = "mark"]
    /\ UNCHANGED <<cacheFile, parArtifacts>>
    /\ ParFrame

\* appendToFirstLine on the queue's tracker; the loop and the test end.
ParMark(q) ==
    /\ wk[q].pc = "mark"
    /\ trackers' = [trackers EXCEPT ![q] =
                       appendToFirstLine(@, ExecKey(QueueExec(q)))]
    /\ wk' = [wk EXCEPT ![q].pc = "done", ![q].batch = << >>]
    /\ UNCHANGED <<cacheFile, parArtifacts>>
    /\ ParFrame

ParNext ==
    \/ \E q \in Queues : ParList(q)
    \/ \E q \in Queues : ParCheck(q)
    \/ \E q \in Queues : ParFetch(q)
    \/ \E q \in Queues : ParLoad(q)
    \/ \E q \in Queues : \E n \in wk[q].todo : ParReply(q, n)
    \/ \E q \in Queues : ParAssign(q)
    \/ \E q \in Queues : ParWrite(q)
    \/ \E q \in Queues : ParEnsure(q)
    \/ \E q \in Queues : ParMark(q)

SpecPar == ParInit /\ [][ParNext]_vars

\* ------------------------------------------------- calculateQueueSummary
\* Numbers are IEEE 754 doubles. A positive double is kept as the 53 bits of
\* its significand, most significant first, and the exponent of the first
\* bit: [bits |-> b, top |-> e] is the sum of b[k] * 2^(e - k + 1).
Precision == 53

Zeros(n) == [k \in 1..n |-> 0]

RECURSIVE ToBits(_)
ToBits(n) == IF n = 0 THEN << >> ELSE ToBits(n \div 2) \o <<n % 2>>

RECURSIVE FromBits(_)
FromBits(b) ==
    IF b = << >> THEN 0
    ELSE 2 * FromBits(SubSeq(b, 1, Len(b) - 1)) + b[Len(b)]

\* Long arithmetic goes by limbs of 18 bits, which keeps every intermediate
\* value below 2^31.
Limb == 18
Radix == 2 ^ Limb

\* The w bits of d, for 0 <= d < 2^w.
Bits(d, w) == [k \in 1..w |-> (d \div (2 ^ (w - k))) % 2]

\* Round to nearest, ties to even: b has at least Precision bits, the first
\* of them 1 and of exponent top; sticky says that the exact value has
\* something below the last bit of b.
RoundNearestEven(b, top, sticky) ==
    LET kept == SubSeq(b, 1, Precision)
        rest == SubSeq(b, Precision + 1, Len(b))
        guard == Len(rest) > 0 /\ rest[1] = 1
        below == sticky \/ \E k \in 2..Len(rest) : rest[k] = 1
        up == guard /\ (below \/ kept[Precision] = 1)
    IN IF ~up THEN [bits |-> kept, top |-> top]
       ELSE IF \A k \in 1..Precision : kept[k] = 1
       THEN [bits |-> <<1>> \o Zeros(Precision - 1), top |-> top + 1]
       ELSE LET last == CHOOSE k \in 1..Precision :
                            /\ kept[k] = 0
                            /\ \A h \in (k + 1)..Precision : kept[h] = 1
            IN [bits |-> SubSeq(kept, 1, last - 1) \o <<1>>
                             \o Zeros(Precision - last),
                top |-> top]

\* The double p / t, for integers 0 < p <= t: the first bit and three limbs
\* of the quotient by long division, rounded.
DoubleDiv(p, t) ==
    LET s == CHOOSE k \in 0..10 :
                 p * (2 ^ k) >= t /\ \A h \in 0..(k - 1) : p * (2 ^ h) < t
        r0 == p * (2 ^ s) - t
        d1 == (r0 * Radix) \div t
        r1 == (r0 * Radix) % t
        d2 == (r1 * Radix) \div t
        r2 == (r1 * Radix) % t
        d3 == (r2 * Radix) \div t
        r3 == (r2 * Radix) % t
    IN RoundNearestEven(<<1>> \o Bits(d1, Limb) \o Bits(d2, Limb) \o Bits(d3, Limb),
                        0 - s, r3 # 0)

\* The double x * c, for a double x and an integer 0 < c < 2^12: the exact
\* product limb by limb, rounded.
DoubleMul(x, c) ==
    LET lo == FromBits(SubSeq(x.bits, Precision - Limb + 1, Precision))
        mid == FromBits(SubSeq(x.bits, Precision - 2 * Limb + 1, Precision - Limb))
        hi == FromBits(SubSeq(x.bits, 1, Precision - 2 * Limb))
        v3 == lo * c
        v2 == mid * c + v3 \div Radix
        v1 == hi * c + v2 \div Radix
        product == ToBits(v1) \o Bits(v2 % Radix, Limb) \o Bits(v3 % Radix, Limb)
    IN RoundNearestEven(product, x.top + (Len(product) - Precision), FALSE)

\* Math.round(x) for a double x > 0: floor(x + 0.5).
MathRound(x) ==
    LET whole == IF x.top >= 0 THEN FromBits(SubSeq(x.bits, 1, x.top + 1)) ELSE 0
        half == IF x.top >= -1 /\ x.top + 2 <= Precision
                THEN x.bits[x.top + 2] ELSE 0
    IN whole + half

\* String.prototype.toUpperCase on the status strings in use; "undefined" is
\* what test.successful?.toUpperCase() gives when the field is absent.
Upper(s) ==
    CASE s \in {"SUCCESS", "Success", "success"} -> "SUCCESS"
      [] s \in {"TRUE", "True", "true"} -> "TRUE"
      [] s \in {"FAIL", "Fail", "fail"} -> "FAIL"
      [] s \in {"FAILED", "Failed", "failed"} -> "FAILED"
      [] OTHER -> s

\* A duration "HH:MM:SS.fraction" is kept as its parts between the colons
\* and the fraction: formatDuration keeps the first three parts, without the
\* fraction, when there are at least three, and the whole string otherwise.
Duration(parts, fraction) == [parts |-> parts, fraction |-> fraction]
formatDuration(d) ==
    IF Len(d.parts) >= 3 THEN SubSeq(d.parts, 1, 3)
    ELSE d.parts \o <<d.fraction>>

\* passRate of calculateQueueSummary.
passRate(passed, totalTests) ==
    IF totalTests > 0
    THEN IF passed = 0 THEN 0
         ELSE MathRound(DoubleMul(DoubleDiv(passed, totalTests), 100))
    ELSE 0

\* value is the list of the successful fields of testResults.data.Value.
calculateQueueSummary(value, queueId, executionDate, duration) ==
    LET totalTests == Len(value)
        passed == Cardinality({k \in 1..Len(value) :
                                  Upper(value[k]) \in {"SUCCESS", "TRUE"}})
    IN [queueId |-> queueId,
        date |-> executionDate,
        totalTests |-> totalTests,
        passed |-> passed,
        failed |-> totalTests - passed,
        passedRate |-> passRate(passed, totalTests),
        duration |-> formatDuration(duration)]

\* Result lists: p records with one passing value followed by records with
\* one other value.
PassingValues == {"SUCCESS", "true"}
OtherValues == {"FAIL", "undefined"}

CalcInputs ==
    {[k \in 1..t |-> IF k <= p THEN v[1] ELSE v[2]] :
        t \in 0..MaxTests, p \in 0..MaxTests, v \in PassingValues \X OtherValues}

CalcInit ==
    /\ CollectorIdle
    /\ wk = << >>
    /\ trackers = << >>
    /\ parArtifacts = << >>
    /\ tests \in CalcInputs
    /\ summary = NoSummary
    /\ summaryFile = AbsentSummaries
    /\ recorded = << >>

\* calculateQueueSummary is called on the list.
Calculate ==
    /\ summary = NoSummary
    /\ summary' = calculateQueueSummary(tests, ExecKey(1), ExecTs(1).date,
                                        Duration(<<0, 2, 7>>, 4547924))
    /\ UNCHANGED <<listing, now, faults, runNo, fsVars, runVars, batchVars,
                   jiraVars, histVars, wk, trackers, parArtifacts, tests,
                   summaryFile, recorded>>

CalcNext == Calculate

SpecCalc == CalcInit /\ [][CalcNext]_vars

\* ------------------------------------------ the queue summary collector
\* loadExistingQueueSummaries: the array of the file, or an empty array when
\* the file does not exist.
loadExistingQueueSummaries(file) == IF file.exists THEN file.list ELSE << >>

\* A save that adds the summary whether or not its queueId is in the file.
saveQueueSummary_noCheck(file, queueSummary) ==
    [exists |-> TRUE,
     list |-> <<queueSummary>> \o loadExistingQueueSummaries(file)]

\* saveQueueSummary: the file as it is when an entry has the queueId of the
\* summary, and else the file with the summary in front of its entries.
saveQueueSummary(file, queueSummary) ==
    LET existingSummaries == loadExistingQueueSummaries(file)
        found == \E k \in 1..Len(existingSummaries) :
                     existingSummaries[k].queueId = queueSummary.queueId
    IN IF found THEN file
       ELSE [exists |-> TRUE, list |-> <<queueSummary>> \o existingSummaries]

\* automatedQueue.duration of an execution.
ExecDuration(e) == Duration(<<0, 2, e>>, 4547924)

\* What the run leaves alone: the files and locals of the report collector
\* and of the other programs.
SumFrame ==
    UNCHANGED <<now, faults, fsVars, unmarked, batchVars, jiraVars, histVars,
                wk, trackers, parArtifacts, tests, recorded>>

\* test(`${queue.name} - Collect ... queue results`) starts.
SumStartRun(n) ==
    /\ ~Running
    /\ runNo < MaxRuns
    /\ runNo' = runNo + 1
    /\ N' = n
    /\ pc' = "list"
    /\ snapshot' = << >>
    /\ i' = 0
    /\ errAt' = ""
    /\ summary' = NoSummary
    /\ UNCHANGED <<listing, summaryFile>>
    /\ SumFrame

\* findQueueItemByTitle, getAutomatedTestQueuesForTestQueue and the head of
\* processQueueResults: a call throws, or no item with a key is found, or the
\* answer has no data.Value, or the loop starts at index min(N, count) - 1.
SumList ==
    /\ pc = "list"
    /\ \E outcome \in {"ok", "throw", "nokey", "novalue"} :
         IF outcome = "ok"
         THEN /\ snapshot' = listing
              /\ i' = Min(N, Len(listing))
              /\ pc' = "check"
              /\ errAt' = errAt
         ELSE /\ pc' = "error"
              /\ errAt' = outcome
              /\ UNCHANGED <<snapshot, i>>
    /\ UNCHANGED <<listing, runNo, N, summary, summaryFile>>
    /\ SumFrame

\* The loop test of processQueueResults and the check of the entry: an entry
\* without a timestamp is skipped.
SumCheck ==
    /\ pc = "check"
    /\ IF i = 0
       THEN pc' = "done" /\ i' = i
       ELSE IF ~ExecTs(snapshot[i]).has
            THEN pc' = "check" /\ i' = i - 1
            ELSE pc' = "fetch" /\ i' = i
    /\ UNCHANGED <<listing, runNo, N, snapshot, errAt, summary, summaryFile>>
    /\ SumFrame

\* getAutomatedTestListForTestQueue(key, false) throws, or returns the
\* records and calculateQueueSummary is called on them.
SumFetch ==
    /\ pc = "fetch"
    /\ \E outcome \in {"ok", "throw"} :
         IF outcome = "throw"
         THEN /\ pc' = "error"
              /\ errAt' = "fetch"
              /\ summary' = summary
         ELSE LET e == snapshot[i]
                  recs == ExecRecs(e)
                  value == [k \in 1..Len(recs) |-> RecSuccessful(recs[k])]
              IN /\ summary' = calculateQueueSummary(value, ExecKey(e),
                                                     ExecTs(e).date,
                                                     ExecDuration(e))
                 /\ pc' = "save"
                 /\ errAt' = errAt
    /\ UNCHANGED <<listing, runNo, N, snapshot, i, summaryFile>>
    /\ SumFrame

\* saveQueueSummary(queue, queueSummary), and the loop goes on to the entry
\* before.
SumSave ==
    /\ pc = "save"
    /\ summaryFile' = saveQueueSummary(summaryFile, summary)
    /\ summary' = NoSummary
    /\ i' = i - 1
    /\ pc' = "check"
    /\ UNCHANGED <<listing, runNo, N, snapshot, errAt>>
    /\ SumFrame

\* The process is stopped before its next step.
SumStop ==
    /\ Running
    /\ pc' = "stopped"
    /\ i' = 0
    /\ summary' = NoSummary
    /\ UNCHANGED <<listing, runNo, N, snapshot, errAt, summaryFile>>
    /\ SumFrame

SumNext ==
    \/ \E e \in ExecIds : NewExecution(e)
    \/ \E n \in NValues : SumStartRun(n)
    \/ SumList
    \/ SumCheck
    \/ SumFetch
    \/ SumSave
    \/ SumStop

SpecSummary == Init /\ [][SumNext]_vars

\* ------------------------------------------- the tracker file on its own
\* The tracker files a record may find: none, an empty one, one key, one key
\* and a line end, two keys.
TrackerFiles ==
    {AbsentFile,
     TextFile(<< >>),
     TextFile(ExecKey(1)),
     TextFile(ExecKey(1) \o <<NL>>),
     TextFile(ExecKey(2) \o <<NL>> \o ExecKey(1))}

TrackerInit ==
    /\ tracker \in TrackerFiles
    /\ trackerAtStart = AbsentFile
    /\ listing = << >>
    /\ now = 0
    /\ faults = 0
    /\ runNo = 0
    /\ artifacts = NoArtifacts
    /\ cacheFile = [exists |-> FALSE, wellFormed |-> TRUE, map |-> EmptyMap]
    /\ pc = "idle"
    /\ N = 0
    /\ snapshot = << >>
    /\ i = 0
    /\ batch = << >>
    /\ pending = {}
    /\ threw = {}
    /\ cache = EmptyMap
    /\ results = EmptyMap
    /\ uncached = << >>
    /\ bi = 0
    /\ todo = {}
    /\ errAt = ""
    /\ unmarked = 0
    /\ log = << >>
    /\ searched = {}
    /\ resolved = {}
    /\ artifactsAtStart = NoArtifacts
    /\ cacheSizeAtStart = 0
    /\ writtenAt = [e \in ExecIds |-> {}]
    /\ prev = NoPrev
    /\ ExtIdle

\* The end of saveAutomatedTestList: the tracker file is created empty when
\* it does not exist, and the key is handed to appendToFirstLine.
RecordProcessed(key) ==
    /\ Len(recorded) < MaxRecorded
    /\ tracker' = appendToFirstLine(IF tracker.exists THEN tracker
                                    ELSE TextFile(<< >>), key)
    /\ recorded' = <<key>> \o recorded
    /\ UNCHANGED <<listing, now, faults, runNo, artifacts, cacheFile, runVars,
                   batchVars, jiraVars, histVars, wk, trackers, parArtifacts,
                   tests, summary, summaryFile>>

TrackerNext == \E e \in ExecIds : RecordProcessed(ExecKey(e))

SpecTracker == TrackerInit /\ [][TrackerNext]_vars

\* ================================================================== claims
\* The keys recorded in a tracker file: its non-empty lines.
TrackerKeys(file) ==
    IF ~file.exists THEN {}
    ELSE LET lines == readLines(file)
         IN {lines[k] : k \in 1..Len(lines)} \ {<< >>}

\* How many lines of the file are exactly this key.
KeyCount(file, key) ==
    IF ~file.exists THEN 0
    ELSE LET lines == readLines(file)
         IN Cardinality({k \in 1..Len(lines) : lines[k] = key})

LogHas(kind, e) == \E k \in 1..Len(log) : log[k] = <<kind, e>>
LogCount(kind, e) == Cardinality({k \in 1..Len(log) : log[k] = <<kind, e>>})
LogPos(kind, e) == CHOOSE k \in 1..Len(log) : log[k] = <<kind, e>>

\* The executions the run looks at: the first min(N, count) of the listing.
Window == {snapshot[k] : k \in 1..Min(N, Len(snapshot))}

\* C1: an execution whose key is a line of the tracker when a run starts is
\* neither fetched nor written during that run.
C1_TrackedNotRefetched ==
    \A k \in 1..Len(log) :
        log[k][1] \in {"fetch", "write"}
            => ExecKey(log[k][2]) \notin TrackerKeys(trackerAtStart)

\* A completed run that skipped a tracked execution of its window and
\* collected another one.
C1_Witness ==
    /\ pc = "done"
    /\ \E e \in Window : ExecKey(e) \in TrackerKeys(trackerAtStart)
    /\ \E e \in Window : LogHas("write", e)

\* C2: a run that follows a completed run with the same listing and the same N
\* writes no report and adds no tracker entry; no key is twice in the tracker
\* and no execution has reports at two paths.
C2_RepeatRunWritesNothing ==
    (prev.status = "done" /\ prev.same)
        => /\ \A k \in 1..Len(log) : log[k][1] = "fetch" => FALSE
           /\ tracker = trackerAtStart
           /\ artifacts = artifactsAtStart
           /\ \A e \in ExecIds : /\ KeyCount(tracker, ExecKey(e)) <= 1
                                 /\ Cardinality(writtenAt[e]) <= 1

\* The repeat run has completed, after a first run that collected something.
C2_Witness ==
    /\ prev.status = "done"
    /\ prev.same
    /\ pc = "done"
    /\ TrackerKeys(tracker) # {}
    /\ Window # {}

\* C3: in every state, stopped runs included, a key is in the tracker only if
\* the report of its execution has been written before, and a report file is
\* at its path.
C3_MarkedOnlyAfterWritten ==
    \A key \in TrackerKeys(tracker) :
        \A e \in ExecIds :
            ExecKey(e) = key
                => writtenAt[e] # {} /\ ReportPath(e) \in DOMAIN artifacts

\* A run was stopped between the write of a report and its mark, while an
\* older execution is written and marked.
C3_Witness ==
    /\ pc = "stopped"
    /\ unmarked # 0
    /\ ExecKey(unmarked) \notin TrackerKeys(tracker)
    /\ ReportPath(unmarked) \in DOMAIN artifacts
    /\ TrackerKeys(tracker) # {}

C5_CollectsExactlyUntracked ==
    pc = "done"
        => LET untracked == {e \in Window :
                                ExecKey(e) \notin TrackerKeys(trackerAtStart)}
           IN /\ {e \in ExecIds : LogHas("fetch", e)} = untracked
              /\ {e \in ExecIds : LogHas("write", e)} = untracked
              /\ \A e \in untracked : KeyCount(tracker, ExecKey(e)) = 1
              /\ \A key \in TrackerKeys(trackerAtStart) :
                    KeyCount(tracker, key) = KeyCount(trackerAtStart, key)

\* A completed run has passed over an execution of its window whose key is
\* no line of the tracker.
C5_Witness ==
    /\ pc = "done"
    /\ \E e \in Window :
          /\ ExecKey(e) \notin TrackerKeys(trackerAtStart)
          /\ ~LogHas("fetch", e)
          /\ ExecKey(e) \notin TrackerKeys(tracker)

\* The names the records of the batch in hand bear.
BatchNames == {RecName(batch[k].rid) : k \in 1..Len(batch)}

PersistedMap == loadJiraMappingCache(cacheFile)

Issued == todo' \ todo

\* C7: once a lookup has been saved, every name of the batch is in the
\* persisted cache, with null when the search finds no issue for it; and no
\* search call is ever issued for a name that is in the persisted cache or in
\* the cache in memory, whether its value is an issue key or null.
C7_NullCachedNeverRequeried ==
    /\ [](pc = "write"
            => \A n \in BatchNames :
                  /\ n \in DOMAIN PersistedMap
                  /\ JiraIssue(n) = Null => PersistedMap[n] = Null)
    /\ [][\A n \in Issued : n \notin DOMAIN PersistedMap /\ n \notin DOMAIN cache']_vars

\* A lookup answers a name from a null entry that an earlier run cached.
C7_Witness ==
    /\ pc = "assign"
    /\ \E n \in DOMAIN results :
          /\ results[n] = Null
          /\ n \notin searched
          /\ n \in DOMAIN PersistedMap
          /\ PersistedMap[n] = Null

\* The failed tests of the batch in hand: those a detail fetch is issued for.
FailedTests == {k \in 1..Len(batch) : IsFailedTest(batch[k].rid)}

ImageSet(rec) == rec.cImageUrl.kind # "unset"
AllThreeSet(rec) ==
    rec.cErrorTitle # Unset /\ rec.cErrorDescription # Unset /\ ImageSet(rec)
NoneSet(rec) ==
    rec.cErrorTitle = Unset /\ rec.cErrorDescription = Unset /\ ~ImageSet(rec)

\* The batch in hand has just been written, whole, as the report of its
\* execution.
WrittenWhole ==
    /\ ReportPath(snapshot[i]) \in DOMAIN artifacts
    /\ artifacts[ReportPath(snapshot[i])] = Report(snapshot[i], batch)
    /\ Len(batch) = Len(ExecRecs(snapshot[i]))
    /\ \A k \in 1..Len(batch) : batch[k].rid = ExecRecs(snapshot[i])[k]

EnrichedRecords ==
    (IF pc \in {"jira", "search", "assign", "write", "ensure", "mark"}
     THEN {batch[k] : k \in 1..Len(batch)} ELSE {})
    \cup UNION {{artifacts[p].value[k] : k \in 1..Len(artifacts[p].value)} :
                   p \in DOMAIN artifacts}

\* C9 as stated: every enriched record has all three failure fields or none.
C9_AsStated ==
    \A rec \in EnrichedRecords : AllThreeSet(rec) \/ NoneSet(rec)

\* C9 amended: every enriched record has none of the three failure fields, or
\* has title and description both, and then the screenshot reference exactly
\* when the step they come from carries a reference value.
C9_TitleAndDescriptionTogether ==
    \A rec \in EnrichedRecords :
        \/ NoneSet(rec)
        \/ /\ rec.cErrorTitle # Unset
           /\ rec.cErrorDescription # Unset
           /\ ImageSet(rec) <=> DownloadsImage(rec)

\* A written report holds a record with all three fields and a record with
\* title and description only.
C9_Witness ==
    \E p \in DOMAIN artifacts :
        LET value == artifacts[p].value
        IN /\ \E k \in 1..Len(value) : AllThreeSet(value[k])
           /\ \E k \in 1..Len(value) :
                 value[k].cErrorTitle # Unset /\ ~ImageSet(value[k])

\* C10: a run that ends because the queue lookup or the listing call threw, or
\* the listing had no execution list, has written no report and has left the
\* tracker as it was.
C10_ListingFailureWritesNothing ==
    (pc = "error" /\ errAt \in {"find", "list", "novalue"})
        => /\ log = << >>
           /\ artifacts = artifactsAtStart
           /\ tracker = trackerAtStart

\* A run ends on a listing without execution list, after an earlier run
\* collected.
C10_Witness ==
    /\ pc = "error"
    /\ errAt = "novalue"
    /\ DOMAIN artifacts # {}
    /\ tracker.exists

\* C11 as stated: a step never removes a report file nor changes the content
\* of one that exists.
C11_AsStated ==
    [][\A p \in DOMAIN artifacts :
           p \in DOMAIN artifacts' /\ artifacts'[p] = artifacts[p]]_vars

\* C11 amended: no step removes a report file, and the content of an existing
\* report file changes only by the report write of an execution that has this
\* path and that the tracker lookup did not find: the same execution
\* collected again, or another execution that started in the same second of
\* the same date.
C11_ReplacedOnlyByWriteAtSamePath ==
    [][\A p \in DOMAIN artifacts :
           /\ p \in DOMAIN artifacts'
           /\ artifacts'[p] # artifacts[p]
                => /\ pc = "write"
                   /\ p = ReportPath(snapshot[i])
                   /\ ~doesFileContain(tracker, ExecKey(snapshot[i]))
                   /\ artifacts'[p] = Report(snapshot[i], batch)]_vars

\* A report write has replaced the content of a file that was there when the
\* run started.
C11_Witness ==
    /\ pc = "ensure"
    /\ ReportPath(snapshot[i]) \in DOMAIN artifactsAtStart
    /\ artifacts[ReportPath(snapshot[i])] # artifactsAtStart[ReportPath(snapshot[i])]

\* C12: two distinct executions with start timestamps on the same date have
\* their reports written to distinct paths.
C12_DistinctPathsWithinDate ==
    \A e1, e2 \in ExecIds :
        (e1 # e2 /\ ExecTs(e1).has /\ ExecTs(e2).has
            /\ ExecTs(e1).date = ExecTs(e2).date)
            => writtenAt[e1] \cap writtenAt[e2] = {}

\* Two executions are both marked, and the one file at their common path is
\* the report of the later one.
C12_Witness ==
    \E e1, e2 \in ExecIds :
        /\ e1 < e2
        /\ ExecKey(e1) \in TrackerKeys(tracker)
        /\ ExecKey(e2) \in TrackerKeys(tracker)
        /\ ReportPath(e1) = ReportPath(e2)
        /\ artifacts[ReportPath(e1)].exec = e2

\* C14: at most batchSize search calls are in flight, and when a step issues
\* calls, every call that was in flight before the step has ended by it.
C14_BoundedBatches ==
    /\ [](Cardinality(todo) <= batchSize)
    /\ [][Issued # {}
            => /\ todo \cap todo' = {}
               /\ todo \subseteq DOMAIN results'
               /\ Cardinality(Issued) <= batchSize]_vars

\* The calls of a second batch are in flight, the five names of the first
\* batch resolved.
C14_Witness ==
    /\ pc = "search"
    /\ bi = batchSize
    /\ todo # {}
    /\ Cardinality(DOMAIN results \cap searched) >= batchSize

\* C15: a search call that throws stores null for its name in the result and
\* in the cache and does not end the lookup; the lookup resolves every name of
\* the batch, at most as many searched names as calls threw have another
\* result than the tracker's answer, and the batch is written with an issue
\* key or null on every record.
C15_SearchErrorIsNull ==
    /\ [][(pc = "search" /\ faults' > faults)
            => \E n \in todo :
                  /\ n \notin DOMAIN results
                  /\ results' = Put(results, n, Null)
                  /\ cache' = Put(cache, n, Null)
                  /\ pc' \in {"search", "assign"}]_vars
    /\ [](pc = "assign"
            => /\ DOMAIN results = BatchNames
               /\ Cardinality({n \in searched : results[n] # JiraIssue(n)})
                     <= faults)
    /\ [](pc = "ensure"
            => /\ WrittenWhole
               /\ \A k \in 1..Len(batch) :
                     batch[k].cJiraKey = PersistedMap[RecName(batch[k].rid)])

\* A batch is written after the search for a name that has an issue threw:
\* the name is cached with null, another searched name with its answer.
C15_Witness ==
    /\ pc = "ensure"
    /\ faults > 0
    /\ WrittenWhole
    /\ \E k \in 1..Len(batch) :
          /\ JiraIssue(RecName(batch[k].rid)) # Null
          /\ RecName(batch[k].rid) \in searched
          /\ batch[k].cJiraKey = Null
    /\ \E n \in searched : PersistedMap[n] = JiraIssue(n)

\* The cache file is missing or does not parse.
NoUsableCacheFile == ~(cacheFile.exists /\ cacheFile.wellFormed)

QueueNames(q) ==
    {RecName(ExecRecs(QueueExec(q))[k]) : k \in 1..Len(ExecRecs(QueueExec(q)))}

\* The report a run of queue q alone writes: every record with the tracker's
\* answer for its name.
SequentialReport(q) ==
    Report(QueueExec(q),
           [k \in 1..Len(ExecRecs(QueueExec(q))) |->
               [RawRecord(ExecRecs(QueueExec(q))[k]) EXCEPT !.cJiraKey =
                   JiraIssue(RecName(ExecRecs(QueueExec(q))[k]))]])

BothDone == \A q \in Queues : wk[q].pc = "done"

\* C13: when the runs of two queues have both ended, however their steps
\* interleaved, each queue's tracker and report are those a run alone
\* produces, and the cache file holds every name either run resolved.
C13_InterleavedAsSequential ==
    BothDone
        => /\ \A q \in Queues :
                 /\ trackers[q] = appendToFirstLine(TextFile(<< >>),
                                                    ExecKey(QueueExec(q)))
                 /\ QueueReportPath(q, QueueExec(q)) \in DOMAIN parArtifacts
                 /\ parArtifacts[QueueReportPath(q, QueueExec(q))]
                       = SequentialReport(q)
           /\ \A q \in Queues : QueueNames(q) \subseteq DOMAIN PersistedMap

\* Both runs have ended with their trackers and reports in place, and a name
\* one of them resolved is not in the cache file.
C13_Witness ==
    /\ BothDone
    /\ \A q \in Queues :
          /\ TrackerKeys(trackers[q]) = {ExecKey(QueueExec(q))}
          /\ parArtifacts[QueueReportPath(q, QueueExec(q))] = SequentialReport(q)
    /\ \E q \in Queues : \E n \in QueueNames(q) : n \notin DOMAIN PersistedMap

\* The integer nearest to 100 * p / t, halves rounded up.
RoundedPercent(p, t) == (200 * p + t) \div (2 * t)

\* C17: the summary has the number of records, the number of records whose
\* successful value is SUCCESS or TRUE in any case, their difference, and the
\* rounded percentage of passed records, 0 for an empty list.
C17_SummaryCounts ==
    summary # NoSummary
        => LET passing == {k \in 1..Len(tests) :
                              tests[k] \in {"SUCCESS", "Success", "success",
                                            "TRUE", "True", "true"}}
           IN /\ summary.totalTests = Len(tests)
              /\ summary.passed = Cardinality(passing)
              /\ summary.failed = summary.totalTests - summary.passed
              /\ summary.passedRate \in 0..100
              /\ summary.passedRate =
                    IF Len(tests) = 0 THEN 0
                    ELSE RoundedPercent(summary.passed, summary.totalTests)

\* A summary whose percentage is not the rounded percentage of its counts.
C17_Witness ==
    /\ summary # NoSummary
    /\ summary.totalTests = 40
    /\ summary.passed = 23
    /\ summary.passedRate = 57

\* The execution a summary entry is of.
ExecOfKey(key) == CHOOSE e \in ExecIds : ExecKey(e) = key

SummaryIds(file) ==
    {file.list[k].queueId : k \in 1..Len(file.list)}

\* C18: the summary array holds at most one entry per execution id: a save
\* leaves the file as it is when an entry has the queueId of the summary, and
\* else adds exactly that one entry, in front; no other step changes the
\* file.
C18_OneEntryPerExecution ==
    /\ [](\A a, b \in 1..Len(summaryFile.list) :
              summaryFile.list[a].queueId = summaryFile.list[b].queueId
                  => a = b)
    /\ [][IF pc = "save" /\ pc' = "check"
          THEN IF summary.queueId \in SummaryIds(summaryFile)
               THEN summaryFile' = summaryFile
               ELSE /\ summaryFile'.exists
                    /\ summaryFile'.list = <<summary>> \o summaryFile.list
          ELSE summaryFile' = summaryFile]_vars

\* A run has come to an execution whose summary is in the file, and to its
\* save, with two entries in the file.
C18_Witness ==
    /\ pc = "save"
    /\ runNo = 2
    /\ Len(summaryFile.list) = 2
    /\ summary.queueId \in SummaryIds(summaryFile)

\* C19: the entries of the summary array are ordered most-recent execution
\* first.
C19_MostRecentFirst ==
    \A a, b \in 1..Len(summaryFile.list) :
        a < b => ExecOfKey(summaryFile.list[a].queueId)
                     > ExecOfKey(summaryFile.list[b].queueId)

\* A run with N = 1 has saved the latest execution and a run with N = 2 has
\* then saved the one before it.
C19_Witness ==
    /\ runNo = 2
    /\ N = 2
    /\ pc = "done"
    /\ Len(summaryFile.list) = 2
    /\ summaryFile.list[1].queueId = ExecKey(1)
    /\ summaryFile.list[2].queueId = ExecKey(2)

\* C20: the tracker lists the recorded keys one per line, the most recently
\* recorded key on the first line.
C20_RecordedKeysNewestFirst ==
    recorded # << >>
        => LET lines == readLines(tracker)
           IN /\ Len(lines) >= Len(recorded)
              /\ SubSeq(lines, 1, Len(recorded)) = recorded

\* Two keys have been recorded in a tracker that was created empty: its first
\* line is empty and the later key is on the second.
C20_Witness ==
    /\ recorded = <<ExecKey(2), ExecKey(1)>>
    /\ tracker = TextFile(<<NL>> \o ExecKey(2) \o <<NL>> \o ExecKey(1))

\* C21: no step removes or alters a key of the tracker file: the keys in the
\* file after a step include the keys before it, each as often as before.
C21_TrackerOnlyGrows ==
    [][/\ TrackerKeys(tracker) \subseteq TrackerKeys(tracker')
       /\ \A e \in ExecIds :
              KeyCount(tracker, ExecKey(e)) <= KeyCount(tracker', ExecKey(e))]_vars

\* A key has been recorded in a tracker that held a key when the run started.
C21_Witness ==
    /\ pc = "check"
    /\ TrackerKeys(trackerAtStart) # {}
    /\ TrackerKeys(tracker) # TrackerKeys(trackerAtStart)
    /\ Cardinality(TrackerKeys(tracker)) = 2

\* C22: the lookup resolves every name of the batch, from the cache file when
\* the name is in it and else by the search; the assignment gives every
\* record, passed or failed, the value its name resolved to and changes
\* nothing else; afterwards no record is without cJiraKey and records of one
\* name have one value.
C22_EveryRecordHasJiraKey ==
    /\ [](pc = "assign"
            => \A n \in BatchNames :
                  /\ n \in DOMAIN results
                  /\ n \notin searched => results[n] = PersistedMap[n]
                  /\ (n \in searched /\ faults = 0) => results[n] = JiraIssue(n))
    /\ [][pc = "assign"
            => /\ Len(batch') = Len(batch)
               /\ \A k \in 1..Len(batch) :
                     batch'[k] = [batch[k] EXCEPT !.cJiraKey =
                                      results[RecName(batch[k].rid)]]]_vars
    /\ [](pc \in {"write", "ensure", "mark"}
            => /\ \A k \in 1..Len(batch) : batch[k].cJiraKey # Unset
               /\ \A j, k \in 1..Len(batch) :
                     RecName(batch[j].rid) = RecName(batch[k].rid)
                         => batch[j].cJiraKey = batch[k].cJiraKey)

\* A batch has been written in which a passed and a failed record of one name
\* have its issue key and another record has null.
C22_Witness ==
    /\ pc = "ensure"
    /\ WrittenWhole
    /\ \E j, k \in 1..Len(batch) :
          /\ RecName(batch[j].rid) = RecName(batch[k].rid)
          /\ IsFailedTest(batch[j].rid)
          /\ ~IsFailedTest(batch[k].rid)
          /\ batch[j].cJiraKey = "PRJ-1"
          /\ batch[k].cJiraKey = "PRJ-1"
    /\ \E k \in 1..Len(batch) : batch[k].cJiraKey = Null

\* Where an execution stands in the listing the run read.
SnapshotPos(e) == CHOOSE k \in 1..Len(snapshot) : snapshot[k] = e

FailureFields ==
    [k \in 1..Len(batch) |->
        <<batch[k].cErrorTitle, batch[k].cErrorDescription, batch[k].cImageUrl>>]

\* C24 as stated: when a detail fetch of a batch is pending, the names of the
\* batch have been resolved and the records have their cJiraKey.
C24_AsStated ==
    (pc = "detail" /\ pending # {})
        => \A k \in 1..Len(batch) : batch[k].cJiraKey # Unset

\* C24 amended: the detail fetches and downloads of a batch have all ended
\* when its lookup starts. While a task is pending no name is resolved, no
\* search is issued, the cache file is as it was and no record has cJiraKey;
\* from the start of the lookup on no task is pending and no failure field
\* changes.
C24_DetailsBeforeLookup ==
    /\ [](pc = "detail"
            => /\ pending # {}
               /\ results = EmptyMap /\ cache = EmptyMap /\ todo = {}
               /\ \A k \in 1..Len(batch) : batch[k].cJiraKey = Unset)
    /\ [](pc \in {"jira", "search", "assign", "write", "ensure", "mark"}
            => pending = {})
    /\ [][pc = "detail"
            => /\ cacheFile' = cacheFile
               /\ searched' = searched
               /\ resolved' = resolved]_vars
    /\ [][(pc \in {"jira", "search", "assign"} /\ pc' # "stopped")
            => /\ FailureFields' = FailureFields
               /\ now' = now]_vars

\* The lookup of a batch is searching after a detail fetch of the batch has
\* given a record its failure fields and a screenshot.
C24_Witness ==
    /\ pc = "search"
    /\ todo # {}
    /\ \E k \in 1..Len(batch) :
          /\ batch[k].cErrorTitle # Unset
          /\ batch[k].cImageUrl.kind = "local"
          /\ batch[k].cJiraKey = Unset

\* The records of a list whose successful value is v in any case.
WithOutcome(value, v) ==
    {k \in 1..Len(value) : Lower(RecSuccessful(value[k].rid)) = Lower(v)}

\* The list request has just returned and the tasks have been started.
ListReturned == pc = "fetch" /\ pc' \in {"detail", "jira"}

\* C25 as stated: the detail fetches are issued for exactly the records whose
\* outcome is FAILED.
C25_AsStated ==
    [][ListReturned => pending' = WithOutcome(batch', "FAILED")]_vars

\* C25 amended: the detail fetches are issued for exactly the records whose
\* successful value is FAIL in any case and that carry a key; each task ends
\* once and touches its own record only; a record of any other kind never has
\* a failure field.
C25_DetailFetchForFailWithKey ==
    /\ [][ListReturned
            => pending' = {k \in WithOutcome(batch', "FAIL") :
                              RecKey(batch'[k].rid) # 0}]_vars
    /\ [][pc = "detail"
            => \E k \in pending :
                  /\ pending' = pending \ {k}
                  /\ \A j \in 1..Len(batch) : j # k => batch'[j] = batch[j]]_vars
    /\ [](\A k \in 1..Len(batch) :
             (k \notin WithOutcome(batch, "FAIL") \/ RecKey(batch[k].rid) = 0)
                 => NoneSet(batch[k]))

\* The tasks of a list have ended: a record with value "Fail" has a title, and
\* a record with value "FAILED" and a record with value "FAIL" without key,
\* each with a failed step in its history, have none.
C25_Witness ==
    /\ pc = "jira"
    /\ \E k \in 1..Len(batch) :
          RecSuccessful(batch[k].rid) = "Fail" /\ batch[k].cErrorTitle # Unset
    /\ \E k \in 1..Len(batch) :
          /\ RecSuccessful(batch[k].rid) = "FAILED"
          /\ FirstFailedDetail(RecSteps(batch[k].rid)) # 0
          /\ NoneSet(batch[k])
    /\ \E k \in 1..Len(batch) :
          /\ RecSuccessful(batch[k].rid) = "FAIL"
          /\ RecKey(batch[k].rid) = 0
          /\ FirstFailedDetail(RecSteps(batch[k].rid)) # 0
          /\ NoneSet(batch[k])

\* The steps of the history of a record that are failed and not disabled.
EligibleSteps(rec) ==
    {k \in 1..Len(RecSteps(rec.rid)) :
        /\ RecSteps(rec.rid)[k].successful \in {"FAIL", "Fail", "fail"}
        /\ RecSteps(rec.rid)[k].executionStatus # "Disabled"}

CopiedStep(rec) ==
    RecSteps(rec.rid)[CHOOSE x \in EligibleSteps(rec) :
                          \A y \in EligibleSteps(rec) : x <= y]

\* C27: a task whose download fails leaves its record with the title and the
\* description of the step and the step's reference value as cImageUrl; a task
\* whose download succeeds leaves it with them and the relative path
\* screenshots/<sanitized test name>_<time>.png.
C27_DownloadFallback ==
    [][pc = "detail"
         => \A k \in pending \ pending' :
               /\ (faults' > faults /\ threw' = threw)
                    => /\ EligibleSteps(batch[k]) # {}
                       /\ batch'[k] =
                            [batch[k] EXCEPT
                                !.cErrorTitle = CopiedStep(batch[k]).title,
                                !.cErrorDescription = CopiedStep(batch[k]).description,
                                !.cImageUrl = RawImage(CopiedStep(batch[k]).key)]
               /\ (faults' = faults /\ EligibleSteps(batch[k]) # {}
                       /\ CopiedStep(batch[k]).key # "")
                    => /\ batch'[k].cErrorTitle = CopiedStep(batch[k]).title
                       /\ batch'[k].cErrorDescription = CopiedStep(batch[k]).description
                       /\ batch'[k].cImageUrl =
                            LocalImage(SanitizeName(RecName(batch[k].rid)), now')]_vars

\* The tasks have ended: one record has the raw reference of its step with
\* title and description, another the path of its stored image.
C27_Witness ==
    /\ pc = "jira"
    /\ \E k \in 1..Len(batch) :
          /\ batch[k].cImageUrl = RawImage("u1")
          /\ batch[k].cErrorTitle = "t1"
          /\ batch[k].cErrorDescription = "d1"
    /\ \E k \in 1..Len(batch) : batch[k].cImageUrl.kind = "local"

\* C28: two different records of a batch never have the same screenshot
\* file name.
C28_DistinctScreenshotNames ==
    \A j, k \in 1..Len(batch) :
        (j # k /\ batch[j].cImageUrl.kind = "local"
               /\ batch[k].cImageUrl.kind = "local")
            => batch[j].cImageUrl # batch[k].cImageUrl

\* Two records with different test names have the same screenshot path: the
\* names differ in a character that is replaced, and both tasks read the same
\* millisecond.
C28_Witness ==
    /\ pc = "jira"
    /\ \E j, k \in 1..Len(batch) :
          /\ RecName(batch[j].rid) # RecName(batch[k].rid)
          /\ batch[j].cImageUrl.kind = "local"
          /\ batch[j].cImageUrl = batch[k].cImageUrl

\* C29: the dedup check passes over an execution exactly when its key is a
\* recorded key of the tracker.
C29_SkipsExactlyRecorded ==
    [][(pc = "check" /\ i > 0 /\ pc' # "stopped")
         => ((pc' = "check" /\ i' = i - 1)
                <=> ExecKey(snapshot[i]) \in TrackerKeys(tracker))]_vars

\* The check is at an execution whose key was never recorded and finds it in
\* the tracker, inside a longer key.
C29_Witness ==
    /\ pc = "check"
    /\ i > 0
    /\ ExecKey(snapshot[i]) \notin TrackerKeys(tracker)
    /\ ~LogHas("mark", snapshot[i])
    /\ doesFileContain(tracker, ExecKey(snapshot[i]))

\* The executions that have a report file.
Reported == {artifacts[p].exec : p \in DOMAIN artifacts}

\* C30: the run throws on an execution without start timestamp when its
\* results are fetched and enriched and nothing of it is written: the step
\* that throws changes no file; the execution then has no report and no
\* tracker entry, no newer execution of the window is fetched in the run, and
\* every execution the run wrote before has its report and its tracker entry.
C30_NoTimestampThrowsBeforeWrite ==
    /\ [][(errAt' = "nots" /\ errAt # "nots")
            => /\ pc = "write" /\ pc' = "error"
               /\ ~ExecTs(snapshot[i]).has
               /\ Len(batch) = Len(ExecRecs(snapshot[i]))
               /\ \A k \in 1..Len(batch) : batch[k].cJiraKey # Unset
               /\ tracker' = tracker
               /\ artifacts' = artifacts]_vars
    /\ []((pc = "error" /\ errAt = "nots")
            => /\ log[Len(log)] = <<"fetch", snapshot[i]>>
               /\ snapshot[i] \notin Reported
               /\ ExecKey(snapshot[i]) \notin TrackerKeys(tracker)
               /\ \A k \in 1..(i - 1) :
                     /\ ~LogHas("fetch", snapshot[k])
                     /\ ~LogHas("write", snapshot[k])
               /\ \A k \in (i + 1)..Min(N, Len(snapshot)) :
                     LogHas("fetch", snapshot[k])
                         => /\ LogHas("write", snapshot[k])
                            /\ LogHas("mark", snapshot[k])
                            /\ ReportPath(snapshot[k]) \in DOMAIN artifacts
                            /\ artifacts[ReportPath(snapshot[k])].exec = snapshot[k]
                            /\ ExecKey(snapshot[k]) \in TrackerKeys(tracker))

\* A run over three executions has written and marked the oldest and has
\* thrown on the one without timestamp; the newest is not collected.
C30_Witness ==
    /\ pc = "error"
    /\ errAt = "nots"
    /\ i = 2
    /\ N = 3
    /\ LogHas("mark", snapshot[3])
    /\ ExecKey(snapshot[3]) \in TrackerKeys(tracker)
    /\ snapshot[3] \in Reported
    /\ ExecKey(snapshot[1]) \notin TrackerKeys(tracker)
    /\ snapshot[1] \notin Reported

====
